---- MODULE Spec2Model ----
(***************************************************************************)
(* Model of the hand-tracking scripts:                                     *)
(*   src/src/Handtracker.py  the overlay loop (finger counting, ESC stop)  *)
(*   src/src/ws_server.py    the publishing loop (one asyncio handler per  *)
(*                           WebSocket connection, shared camera)          *)
(* A behaviour runs one of the two scripts, chosen in Init.                *)
(***************************************************************************)
EXTENDS Integers, Sequences, FiniteSets, TLC

VARIABLES
    program,            \* which script runs: "Handtracker" or "ws_server"
    pc,                 \* position of the script's main flow
    exit_cause,         \* why the frame loop / process was left
    released,           \* cap.release() has run
    windows_destroyed,  \* cv2.destroyAllWindows() has run
    success,            \* flag of the last cap.read()
    \* ---- Handtracker.py (module-level names of the script) ----
    key,                \* value of the last cv2.waitKey(1)
    num_hands,          \* len(results.multi_hand_landmarks) of the current frame
    i,                  \* number of hands of the current frame already handled
    hand,               \* observation of the hand handled last (label, landmark)
    thumb_up, fingers, all_fingers, count_up,
    texts,              \* labels put on the current image by cv2.putText
    shown,              \* cv2.imshow was called in the current iteration
    \* ---- ws_server.py ----
    hpc,                \* per connection: position of its handler coroutine
    peer_open,          \* per connection: the remote peer is still there
    ended_before,       \* per connection: handlers already ended when it was accepted
    results,            \* detection of the handler iteration that ran last
    sent                \* messages written by the handler iteration that ran last

vars == <<program, pc, exit_cause, released, windows_destroyed,
          success, key, num_hands, i, hand, thumb_up, fingers, all_fingers,
          count_up, texts, shown, hpc, peer_open, ended_before, results, sent>>

ovVars == <<key, num_hands, i, hand, thumb_up, fingers, all_fingers,
            count_up, texts, shown>>
wsVars == <<hpc, peer_open, ended_before, results, sent>>

----------------------------------------------------------------------------
\* Bounds of the model
MaxCoord == 2       \* landmark coordinates range over 0..MaxCoord
MaxConns == 2       \* connections the server accepts during one run

\* Program constants
OverlayMaxHands == 2     \* Handtracker.py: max_num_hands=2
PublisherMaxHands == 1   \* ws_server.py: max_num_hands=1
ESC == 27                \* Handtracker.py: key code compared after masking

Coord == 0..MaxCoord
Conns == 1..MaxConns
Labels == {"Left", "Right"}

tips == <<8, 12, 16, 20>>
pips == <<6, 10, 14, 18>>
TipSet == {tips[k] : k \in 1..4}
PipSet == {pips[k] : k \in 1..4}

----------------------------------------------------------------------------
\* Observations the detector can return.  A hand has 21 landmarks; the thumb
\* joint (3) sits at x = 1 and every PIP joint at y = 1, the thumb tip at
\* x = tx, the tips in `up` at y = 0, the other tips at y = dy >= 1, and the
\* index tip at x = ix.  Landmarks the scripts never read are at (0, 0).
MkHand(label, tx, up, dy, ix) ==
    [label |-> label,
     landmark |-> [k \in 0..20 |->
        [x |-> CASE k = 3 -> 1 [] k = 4 -> tx [] k = 8 -> ix [] OTHER -> 0,
         y |-> IF k \in PipSet THEN 1
               ELSE IF k \in TipSet THEN (IF k \in up THEN 0 ELSE dy)
               ELSE 0]]]

NoHand == [label |-> "None", landmark |-> [k \in 0..20 |-> [x |-> 0, y |-> 0]]]

OverlayHands ==
    {MkHand(l, tx, up, dy, 0) :
        l \in Labels, tx \in Coord, up \in SUBSET TipSet, dy \in 1..MaxCoord}

\* ws_server.py reads the index tip only: it ranges over Coord \X Coord
PublisherHands ==
    {MkHand("Right", 1, {8}, 1, ix) : ix \in Coord}
    \cup {MkHand("Right", 1, {}, dy, ix) : dy \in 1..MaxCoord, ix \in Coord}

\* results.multi_hand_landmarks of ws_server.py: None/empty or up to max_num_hands hands
PublisherResults ==
    UNION {[1..n -> PublisherHands] : n \in 0..PublisherMaxHands}

\* values cv2.waitKey(1) can return: no key (-1), ESC, another key, and ESC
\* with a modifier flag in the high bits
Keys == {-1, 27, 113, 1048603}

----------------------------------------------------------------------------
\* Handtracker.py: gesture classification

RECURSIVE sum(_)
sum(s) == IF s = <<>> THEN 0 ELSE Head(s) + sum(Tail(s))

ThumbUpOneRule(hand_label, lm) == IF lm[4].x < lm[3].x THEN 1 ELSE 0

ThumbUp(hand_label, lm) ==
    IF hand_label = "Right"
    THEN (IF lm[4].x < lm[3].x THEN 1 ELSE 0)
    ELSE (IF lm[4].x > lm[3].x THEN 1 ELSE 0)

FingerUpOrLevel(lm, tip, pip) == IF lm[tip].y <= lm[pip].y THEN 1 ELSE 0

FingerUp(lm, tip, pip) == IF lm[tip].y < lm[pip].y THEN 1 ELSE 0

FingersKept(old) == old

\* fingers = []
FingersReset(old) == <<>>

\* for tip, pip in zip(tips, pips): fingers.append(...)
AppendFingers(start, lm) ==
    start \o [k \in 1..4 |-> FingerUp(lm, tips[k], pips[k])]

\* text = f"{hand_label}: {count_up} fingers", drawn at (10, 60 + 40*i)
Text(hand_label, cnt, idx) ==
    [label |-> hand_label, count |-> cnt, suffix |-> " fingers",
     org |-> <<10, 60 + 40 * idx>>]

\* cv2.waitKey(1) & 0xFF
MaskKey(k) == k % 256

----------------------------------------------------------------------------
\* ws_server.py: cursor message

\* msg = {"x": lm[4].x, ...}: the thumb tip instead of the index tip
CursorMsgThumb(lm) == [x |-> lm[4].x, y |-> lm[4].y, pinch |-> FALSE]

\* msg = {"x": x, "y": y, "pinch": False} with x = lm[8].x, y = lm[8].y
CursorMsg(lm) == [x |-> lm[8].x, y |-> lm[8].y, pinch |-> FALSE]

\* json.dumps(msg): the object's members in insertion order, Python False
\* written as the JSON literal false
Dumps(msg) ==
    << <<"x", msg.x>>, <<"y", msg.y>>,
       <<"pinch", IF msg.pinch THEN "true" ELSE "false">> >>

\* a heartbeat written even when no hand is detected
OutgoingHeartbeat(h, res) ==
    IF res # <<>>
    THEN << [to |-> h, data |-> Dumps(CursorMsg(res[1].landmark))] >>
    ELSE << [to |-> h, data |-> Dumps([x |-> 0, y |-> 0, pinch |-> FALSE])] >>

\* what one handler iteration hands to websocket.send for detection `res`
Outgoing(h, res) ==
    IF res # <<>>
    THEN << [to |-> h, data |-> Dumps(CursorMsg(res[1].landmark))] >>
    ELSE <<>>

----------------------------------------------------------------------------
Init ==
    /\ program \in {"Handtracker", "ws_server"}
    /\ pc = IF program = "Handtracker" THEN "read" ELSE "serving"
    /\ exit_cause = "none"
    /\ released = FALSE
    /\ windows_destroyed = FALSE
    /\ success = TRUE
    /\ key = -1
    /\ num_hands = 0
    /\ i = 0
    /\ hand = NoHand
    /\ thumb_up = 0
    /\ fingers = <<>>
    /\ all_fingers = <<>>
    /\ count_up = 0
    /\ texts = <<>>
    /\ shown = FALSE
    /\ hpc = [h \in Conns |-> "idle"]
    /\ peer_open = [h \in Conns |-> FALSE]
    /\ ended_before = [h \in Conns |-> 0]
    /\ results = <<>>
    /\ sent = <<>>

common == <<program, released, windows_destroyed>>

----------------------------------------------------------------------------
\* Handtracker.py: the overlay loop

\* a failed read treated as in ws_server.py: skip the frame and read again
OvReadFailedRetry ==
    /\ success' = FALSE
    /\ shown' = FALSE
    /\ pc' = "read"
    /\ UNCHANGED <<exit_cause, key, num_hands, i, hand, thumb_up, fingers,
                   all_fingers, count_up, texts>>

\* success, image = cap.read(); if not success: break
OvReadFailed ==
    /\ success' = FALSE
    /\ pc' = "cleanup"
    /\ exit_cause' = "read_failed"
    /\ shown' = FALSE
    /\ UNCHANGED <<key, num_hands, i, hand, thumb_up, fingers,
                   all_fingers, count_up, texts>>

\* a good frame: flip, convert, results = hands.process(image); n hands found
OvDetected(n) ==
    /\ success' = TRUE
    /\ num_hands' = n
    /\ i' = 0
    /\ texts' = <<>>
    /\ shown' = FALSE
    /\ pc' = IF n > 0 THEN "hands" ELSE "show"
    /\ UNCHANGED <<exit_cause, key, hand, thumb_up, fingers, all_fingers,
                   count_up>>

OvRead ==
    /\ program = "Handtracker"
    /\ pc = "read"
    /\ \/ OvReadFailed
       \/ \E n \in 0..OverlayMaxHands : OvDetected(n)
    /\ UNCHANGED <<common, wsVars>>

\* body of the for loop for the hand at index i, whose observation is h.
\* The detector's observations are arbitrary and independent of each other, so
\* the observation of hand i is drawn when the loop reaches it; thumb_up,
\* fingers, all_fingers and count_up are module-level names that keep their
\* values from the previous hand and the previous frame.
OvClassify(h) ==
    LET lm == h.landmark
        hand_label == h.label
        t == ThumbUp(hand_label, lm)
        f == AppendFingers(FingersReset(fingers), lm)
        a == <<t>> \o f
        c == sum(a)
    IN  /\ hand' = h
        /\ thumb_up' = t
        /\ fingers' = f
        /\ all_fingers' = a
        /\ count_up' = c
        /\ texts' = Append(texts, Text(hand_label, c, i))
        /\ i' = i + 1
        /\ pc' = IF i + 1 < num_hands THEN "hands" ELSE "show"

OvHand ==
    /\ program = "Handtracker"
    /\ pc = "hands"
    /\ \E h \in OverlayHands : OvClassify(h)
    /\ UNCHANGED <<common, wsVars, exit_cause, success, key, num_hands, shown>>

\* cv2.imshow("Handtracker", image); if cv2.waitKey(1) & 0xFF == 27: break
OvPoll(k) ==
    /\ shown' = TRUE
    /\ key' = k
    /\ IF MaskKey(k) = ESC
       THEN pc' = "cleanup" /\ exit_cause' = "esc"
       ELSE pc' = "read" /\ UNCHANGED exit_cause

OvShow ==
    /\ program = "Handtracker"
    /\ pc = "show"
    /\ \E k \in Keys : OvPoll(k)
    /\ UNCHANGED <<common, wsVars, success, num_hands, i, hand, thumb_up,
                   fingers, all_fingers, count_up, texts>>

\* An exception inside the loop (hands.process, draw_landmarks, putText,
\* imshow, or KeyboardInterrupt): the loop has no try/finally, the script
\* ends with the traceback and the statements after the loop never run.
OvRaise ==
    /\ program = "Handtracker"
    /\ pc \in {"read", "hands", "show"}
    /\ pc' = "ended"
    /\ exit_cause' \in {"error", "interrupt"}
    /\ UNCHANGED <<common, success, wsVars, ovVars>>

\* cap.release(); cv2.destroyAllWindows(); end of script
OvCleanup ==
    /\ program = "Handtracker"
    /\ pc = "cleanup"
    /\ released' = TRUE
    /\ windows_destroyed' = TRUE
    /\ pc' = "ended"
    /\ UNCHANGED <<program, exit_cause, success, wsVars, ovVars>>

----------------------------------------------------------------------------
\* ws_server.py: the publishing server.  websockets.serve starts one handler
\* coroutine per accepted connection; the coroutines run on one event loop and
\* switch only at an await, so the code between two awaits is one step.

Active == {"loop", "retry", "sleep"}
Ended == {"closed", "failed"}

\* a browser connects: handler(websocket) starts and prints the greeting
Connect(h) ==
    /\ program = "ws_server"
    /\ pc = "serving"
    /\ hpc[h] = "idle"
    /\ \A g \in Conns : g < h => hpc[g] # "idle"
    /\ hpc' = [hpc EXCEPT ![h] = "loop"]
    /\ peer_open' = [peer_open EXCEPT ![h] = TRUE]
    /\ ended_before' =
          [ended_before EXCEPT ![h] = Cardinality({g \in Conns : hpc[g] \in Ended})]
    /\ UNCHANGED <<common, pc, exit_cause, success, ovVars, results, sent>>

\* the remote peer goes away; nothing in the handler observes it
PeerDrop(h) ==
    /\ program = "ws_server"
    /\ pc = "serving"
    /\ hpc[h] \in Active
    /\ peer_open[h]
    /\ peer_open' = [peer_open EXCEPT ![h] = FALSE]
    /\ UNCHANGED <<common, pc, exit_cause, success, ovVars, hpc, ended_before,
                   results, sent>>

\* a failed read treated as in Handtracker.py: break out of the loop
ReadFailedBreak(h) ==
    /\ success' = FALSE
    /\ hpc' = [hpc EXCEPT ![h] = "failed"]
    /\ sent' = <<>>
    /\ UNCHANGED <<pc, exit_cause, results>>

\* success, frame = cap.read(); if not success: await asyncio.sleep(0.01); continue
ReadFailed(h) ==
    /\ success' = FALSE
    /\ hpc' = [hpc EXCEPT ![h] = "retry"]
    /\ sent' = <<>>
    /\ UNCHANGED <<pc, exit_cause, results>>

\* hands.process (or the conversion before it) raises: the exception leaves
\* handler(); websockets logs it and closes this connection only
DetectRaised(h) ==
    /\ success' = TRUE
    /\ hpc' = [hpc EXCEPT ![h] = "failed"]
    /\ sent' = <<>>
    /\ UNCHANGED <<pc, exit_cause, results>>

\* a failed send that takes the whole server down
SendFailedFatal(h, res) ==
    /\ success' = TRUE
    /\ results' = res
    /\ sent' = <<>>
    /\ hpc' = [g \in Conns |-> IF hpc[g] \in Active THEN "cancelled" ELSE hpc[g]]
    /\ pc' = "cleanup"
    /\ exit_cause' = "error"

\* await websocket.send(...) on a connection whose peer is gone raises
\* ConnectionClosed: the exception leaves handler(), the server goes on
SendFailed(h, res) ==
    /\ success' = TRUE
    /\ results' = res
    /\ sent' = <<>>
    /\ hpc' = [hpc EXCEPT ![h] = "closed"]
    /\ UNCHANGED <<pc, exit_cause>>

\* a good frame with detection res: send when a hand is detected, then
\* await asyncio.sleep(1 / 60)
Publish(h, res) ==
    IF Outgoing(h, res) # <<>> /\ ~peer_open[h]
    THEN SendFailed(h, res)
    ELSE /\ success' = TRUE
         /\ results' = res
         /\ sent' = Outgoing(h, res)
         /\ hpc' = [hpc EXCEPT ![h] = "sleep"]
         /\ UNCHANGED <<pc, exit_cause>>

\* one iteration of handler's while loop, from cap.read() to the next await.
\* success, results and msg are locals of the coroutine; no await separates
\* their assignment from their use, so one register each, holding the values
\* of the iteration that ran last, records them.
HandlerStep(h) ==
    /\ program = "ws_server"
    /\ pc = "serving"
    /\ hpc[h] = "loop"
    /\ \/ ReadFailed(h)
       \/ DetectRaised(h)
       \/ \E res \in PublisherResults : Publish(h, res)
    /\ UNCHANGED <<common, ovVars, peer_open, ended_before>>

\* asyncio.sleep returns: back to the top of the while loop
Wake(h) ==
    /\ program = "ws_server"
    /\ pc = "serving"
    /\ hpc[h] \in {"retry", "sleep"}
    /\ hpc' = [hpc EXCEPT ![h] = "loop"]
    /\ UNCHANGED <<common, pc, exit_cause, success, ovVars, peer_open,
                   ended_before, results, sent>>

\* Ctrl+C: asyncio.run cancels the tasks and re-raises into the try block
Interrupt ==
    /\ program = "ws_server"
    /\ pc = "serving"
    /\ hpc' = [g \in Conns |-> IF hpc[g] \in Active THEN "cancelled" ELSE hpc[g]]
    /\ pc' = "cleanup"
    /\ exit_cause' = "interrupt"
    /\ UNCHANGED <<common, success, ovVars, peer_open, ended_before, results,
                   sent>>

\* finally: cap.release(); cv2.destroyAllWindows()
WsCleanup ==
    /\ program = "ws_server"
    /\ pc = "cleanup"
    /\ released' = TRUE
    /\ windows_destroyed' = TRUE
    /\ pc' = "ended"
    /\ UNCHANGED <<program, exit_cause, success, wsVars, ovVars>>

----------------------------------------------------------------------------
Next ==
    \/ OvRead
    \/ OvHand
    \/ OvShow
    \/ OvRaise
    \/ OvCleanup
    \/ \E h \in Conns : Connect(h)
    \/ \E h \in Conns : PeerDrop(h)
    \/ \E h \in Conns : HandlerStep(h)
    \/ \E h \in Conns : Wake(h)
    \/ Interrupt
    \/ WsCleanup

Spec == Init /\ [][Next]_vars

\* The publishing server alone, with the scheduling asyncio guarantees: a
\* sleeping handler is resumed once its asyncio.sleep has elapsed.
PublisherInit == Init /\ program = "ws_server"

PublisherNext ==
    \/ \E h \in Conns : Connect(h)
    \/ \E h \in Conns : PeerDrop(h)
    \/ \E h \in Conns : HandlerStep(h)
    \/ \E h \in Conns : Wake(h)
    \/ Interrupt
    \/ WsCleanup

PublisherSpec ==
    PublisherInit /\ [][PublisherNext]_vars /\ \A h \in Conns : WF_vars(Wake(h))

----------------------------------------------------------------------------
\* Properties

lmOf == hand.landmark

\* C1: for a hand labelled "Right" the thumb flag is 1 iff landmark[4].x <
\* landmark[3].x, for a hand labelled "Left" iff landmark[4].x > landmark[3].x,
\* and 0 otherwise (equal x included); the flag is the first of all_fingers.
C1_ThumbRule ==
    (program = "Handtracker" /\ hand # NoHand) =>
        /\ thumb_up \in {0, 1}
        /\ all_fingers[1] = thumb_up
        /\ hand.label = "Right" => (thumb_up = 1 <=> lmOf[4].x < lmOf[3].x)
        /\ hand.label = "Left" => (thumb_up = 1 <=> lmOf[4].x > lmOf[3].x)

\* scenario B: tip.x below joint.x on a Left hand, four fingers up, count 4
C1_Witness ==
    /\ pc = "show"
    /\ hand.label = "Left"
    /\ lmOf[4].x < lmOf[3].x
    /\ thumb_up = 0
    /\ count_up = 4

\* C2: index, middle, ring and pinky (pairs 8/6, 12/10, 16/14, 20/18) are
\* flagged 1 iff the tip's y is strictly below the PIP's y, whatever the label.
C2_FingerRule ==
    (program = "Handtracker" /\ hand # NoHand) =>
        /\ Len(fingers) = 4
        /\ fingers[1] = 1 <=> lmOf[8].y < lmOf[6].y
        /\ fingers[2] = 1 <=> lmOf[12].y < lmOf[10].y
        /\ fingers[3] = 1 <=> lmOf[16].y < lmOf[14].y
        /\ fingers[4] = 1 <=> lmOf[20].y < lmOf[18].y
        /\ \A k \in 1..4 : fingers[k] \in {0, 1}

\* a tip level with its PIP joint is not extended, beside a finger that is
C2_Witness ==
    /\ hand # NoHand
    /\ lmOf[8].y = lmOf[6].y
    /\ fingers[1] = 0
    /\ lmOf[12].y < lmOf[10].y
    /\ fingers[2] = 1

\* the five flags the claims give for an observation
FlagsOf(h) ==
    << IF \/ h.label = "Right" /\ h.landmark[4].x < h.landmark[3].x
          \/ h.label = "Left" /\ h.landmark[4].x > h.landmark[3].x
       THEN 1 ELSE 0,
       IF h.landmark[8].y < h.landmark[6].y THEN 1 ELSE 0,
       IF h.landmark[12].y < h.landmark[10].y THEN 1 ELSE 0,
       IF h.landmark[16].y < h.landmark[14].y THEN 1 ELSE 0,
       IF h.landmark[20].y < h.landmark[18].y THEN 1 ELSE 0 >>

\* C3: for every hand handled, the five flags (thumb, index, middle, ring,
\* pinky) are those of that hand's observation alone, the count is the number
\* of flags set, lies in 0..5, and is the count written in the hand's label.
C3_CountOfThisHand ==
    (program = "Handtracker" /\ hand # NoHand) =>
        /\ all_fingers = FlagsOf(hand)
        /\ count_up = Cardinality({k \in 1..5 : all_fingers[k] = 1})
        /\ count_up \in 0..5
        /\ (pc \in {"hands", "show"} /\ i > 0) =>
              /\ Len(texts) = i
              /\ texts[i].count = count_up
              /\ texts[i].label = hand.label

\* second hand of a frame: no finger up, right after a hand counted 5
C3_Witness ==
    /\ pc = "show"
    /\ i = 2
    /\ texts[1].count = 5
    /\ texts[2].count = 0
    /\ count_up = 0

\* C4: every message sent has exactly the members x, y, pinch, with x and y
\* those of landmark 8 of the first hand detected in the same iteration and
\* pinch false, and an iteration sends at most one message.
C4_CursorMessage ==
    program = "ws_server" =>
        /\ Len(sent) <= 1
        /\ sent # <<>> =>
              /\ results # <<>>
              /\ sent[1].data =
                    << <<"x", results[1].landmark[8].x>>,
                       <<"y", results[1].landmark[8].y>>,
                       <<"pinch", "false">> >>

\* a message with x = 2, y = 0 sent while two handlers are running
C4_Witness ==
    /\ sent # <<>>
    /\ sent[1].data = << <<"x", 2>>, <<"y", 0>>, <<"pinch", "false">> >>
    /\ \A h \in {1, 2} : hpc[h] \in Active

\* a step taken by handler h's loop iteration (not its cancellation)
StepBy(h) ==
    /\ hpc[h] = "loop"
    /\ hpc'[h] # "loop"
    /\ exit_cause' # "interrupt"

\* C5: a failed read in the publishing loop leaves the handler running and
\* sends nothing: the handler sleeps, detects nothing, and from the sleep it
\* only goes back to reading (unless the process is interrupted), which it
\* eventually does; an iteration that then detects a hand on an open
\* connection publishes a message.
C5_FailedReadRetries ==
    /\ [][\A h \in Conns :
            /\ (StepBy(h) /\ ~success') =>
                  /\ hpc'[h] = "retry"
                  /\ sent' = <<>>
                  /\ results' = results
                  /\ pc' = "serving"
            /\ hpc[h] = "retry" => hpc'[h] \in {"retry", "loop", "cancelled"}
            /\ (StepBy(h) /\ hpc'[h] = "sleep" /\ results' # <<>>) =>
                  /\ Len(sent') = 1
                  /\ sent'[1].to = h]_vars
    /\ \A h \in Conns :
          (hpc[h] = "retry") ~> (hpc[h] = "loop" \/ hpc[h] = "cancelled")

\* a handler sleeping after a failed read, nothing sent
C5_Witness ==
    /\ pc = "serving"
    /\ ~success
    /\ hpc[1] = "retry"
    /\ sent = <<>>

\* C6: when the detector returns no hand, the publishing loop sends nothing
\* and the overlay loop draws no label; the publishing handler goes to its
\* sleep and the overlay loop straight to the display.
C6_NoHandNoOutput ==
    /\ [](program = "ws_server" /\ results = <<>> => sent = <<>>)
    /\ [](program = "Handtracker" /\ pc = "show" /\ num_hands = 0 => texts = <<>>)
    /\ [][\A h \in Conns :
            (StepBy(h) /\ success' /\ results' = <<>>) =>
                hpc'[h] \in {"sleep", "failed"}]_vars
    /\ [][(program = "Handtracker" /\ pc = "read" /\ pc' # "ended"
           /\ success' /\ num_hands' = 0) => pc' = "show"]_vars
    /\ [][(program = "Handtracker" /\ pc = "show" /\ num_hands = 0) =>
              pc' \in {"show", "read", "cleanup", "ended"}]_vars

\* a handler asleep after a frame without a hand, nothing sent
C6_Witness ==
    /\ program = "ws_server"
    /\ success
    /\ results = <<>>
    /\ hpc[1] = "sleep"
    /\ sent = <<>>

\* C7: whenever the process has ended, the capture device has been released
\* and the windows destroyed, whatever made the frame loop stop.
C7_CleanupOnEveryExit ==
    pc = "ended" => released /\ windows_destroyed

\* C8: in the overlay loop a failed read ends the loop at once: nothing is
\* detected or drawn for it, no frame is read afterwards, and the script
\* releases the capture and destroys the windows; the only other way into
\* that shutdown is the ESC code polled after a displayed frame.
C8_OverlayStops ==
    /\ [][(program = "Handtracker" /\ pc = "read" /\ ~success') =>
              /\ pc' = "cleanup"
              /\ exit_cause' = "read_failed"
              /\ UNCHANGED <<num_hands, i, hand, texts, count_up>>
              /\ ~shown']_vars
    /\ [][(program = "Handtracker" /\ pc \in {"cleanup", "ended"}) =>
              pc' \in {"cleanup", "ended"}]_vars
    /\ [][(program = "Handtracker" /\ pc = "show" /\ pc' \in {"read", "cleanup"}) =>
              /\ shown'
              /\ key' = 27 => pc' = "cleanup"
              /\ pc' = "cleanup" => (key' % 256 = 27 /\ exit_cause' = "esc")]_vars
    /\ [](program = "Handtracker" /\ pc = "cleanup" =>
              \/ exit_cause = "read_failed" /\ ~success
              \/ exit_cause = "esc" /\ shown)
    /\ [](program = "Handtracker" /\ pc = "ended"
              /\ exit_cause \in {"read_failed", "esc"} =>
                  released /\ windows_destroyed)

\* the script has ended after a failed read that followed a handled hand
C8_Witness ==
    /\ program = "Handtracker"
    /\ pc = "ended"
    /\ exit_cause = "read_failed"
    /\ hand # NoHand
    /\ released
    /\ windows_destroyed

\* C9: at most one handler loop is running at any time.
C9_SingleHandler ==
    Cardinality({h \in Conns : hpc[h] \in Active}) <= 1

\* handler h's iteration attempts a send on a connection whose peer is gone
FailedSend(h) ==
    /\ StepBy(h)
    /\ ~peer_open[h]
    /\ success'
    /\ hpc'[h] # "failed"
    /\ results' # <<>>

\* C10: a failed send ends the handler of that connection only: the server
\* keeps serving, the capture stays open, the other handlers are untouched;
\* a handler whose peer is gone survives exactly the iterations that detect
\* no hand or read no frame.
C10_FailedSendIsLocal ==
    /\ [][\A h \in Conns :
            /\ FailedSend(h) =>
                  /\ hpc'[h] = "closed"
                  /\ pc' = "serving"
                  /\ ~released'
                  /\ sent' = <<>>
                  /\ \A g \in Conns \ {h} : hpc'[g] = hpc[g]
            /\ (StepBy(h) /\ ~peer_open[h] /\ hpc'[h] \in Active) =>
                  (~success' \/ results' = <<>>)
            /\ (StepBy(h) /\ hpc'[h] = "closed") => ~peer_open[h]]_vars
    /\ [](pc = "serving" => ~released)
    /\ [](\A h \in Conns : hpc[h] = "idle" => ~peer_open[h])

\* a connection accepted after another one's handler ended receives a message
C10_Witness ==
    /\ pc = "serving"
    /\ ~released
    /\ \E h, g \in Conns :
          /\ hpc[h] = "closed"
          /\ ended_before[g] >= 1
          /\ sent # <<>>
          /\ sent[1].to = g

====
